---------------------------- MODULE Spec2Model ----------------------------
(***************************************************************************)
(* Point cloud -> watertight mesh pipeline of MeshConverter                *)
(* (src/src/mesh_processing/mesh_converter.py).                            *)
(*                                                                         *)
(* A mesh is a record [verts, tris]: verts is a sequence of 3D positions   *)
(* (integer triples), tris a sequence of triples of 1-based vertex         *)
(* indices.  The Open3D / trimesh / numpy calls the code makes are         *)
(* modelled as operators on that data; where the outcome of a library call *)
(* is not determined by the mesh data alone (Poisson reconstruction, hole  *)
(* filling, voxelisation) the model draws it from a bounded set.           *)
(***************************************************************************)
EXTENDS Integers, Sequences, FiniteSets, TLC

(* ------------------------------ bounds --------------------------------- *)

\* number of samples of the largest point cloud loaded
MaxPoints == 4

\* largest number of triangles the reconstructor hands to the pipeline
MaxTris == 4

(* ------------------------- program constants --------------------------- *)

\* depth=9 default of convert_to_watertight_mesh
DefaultDepth == 9

\* density_threshold=0.01 default of clean_mesh, in hundredths
DefaultDensityThreshold == 1

\* quantiles are expressed in hundredths
QuantileScale == 100

(* --------------------------- mesh data --------------------------------- *)

\* five sample positions: the corners of a tetrahedron, and one more point
P1 == <<0, 0, 0>>
P2 == <<2, 0, 0>>
P3 == <<0, 2, 0>>
P4 == <<0, 0, 2>>

\* vertex arrays a reconstruction may produce: four distinct corners, or the
\* same with a fifth vertex that repeats the position of the third
VertexLayouts == { <<P1, P2, P3, P4>>, <<P1, P2, P3, P4, P3>> }

\* triangles a reconstruction may produce: the four faces of the tetrahedron,
\* a rotated repeat of the first face, a triangle naming one vertex twice,
\* and a third triangle on edge 1-2 through the fifth vertex
CandidateTriangles ==
    << <<1, 2, 3>>, <<1, 3, 4>>, <<1, 4, 2>>, <<2, 4, 3>>,
       <<2, 3, 1>>, <<1, 1, 2>>, <<1, 2, 5>> >>

EmptyMesh == [verts |-> <<>>, tris |-> <<>>]

\* the k-th smallest element of a finite set of integers
NthOf(S, k) == CHOOSE j \in S : Cardinality({x \in S : x <= j}) = k

\* the subsequence of s at the indices in keep, in order
SubSeqBy(s, keep) == [k \in 1..Cardinality(keep) |-> s[NthOf(keep, k)]]

\* position of old index i among the kept indices
NewIndex(keep, i) == Cardinality({x \in keep : x <= i})

ValidTri(t, nv) == \A k \in 1..3 : t[k] \in 1..nv

\* every mesh over a vertex layout and at most MaxTris candidate triangles
\* (in candidate order) whose indices are valid for the layout
MeshUniverse ==
    { [verts |-> vs, tris |-> SubSeqBy(CandidateTriangles, keep)] :
        <<vs, keep>> \in
          { p \in VertexLayouts \X SUBSET (1..Len(CandidateTriangles)) :
              /\ Cardinality(p[2]) <= MaxTris
              /\ \A i \in p[2] : ValidTri(CandidateTriangles[i], Len(p[1])) } }
    \cup {EmptyMesh}

\* the (unordered) k-th edge of triangle t
EdgeAt(t, k) == {t[k], t[(k % 3) + 1]}

\* the edges of mesh m
Edges(m) == {EdgeAt(m.tris[p[1]], p[2]) : p \in (1..Len(m.tris)) \X (1..3)}

\* triangles of m with a side on edge e
OnEdge(m, e) == {i \in 1..Len(m.tris) : \E k \in 1..3 : EdgeAt(m.tris[i], k) = e}

\* trimesh's is_watertight: the mesh is not empty and every edge is included
\* in two faces
IsWatertight(m) ==
    /\ Len(m.tris) > 0
    /\ \A e \in Edges(m) : Cardinality(OnEdge(m, e)) = 2

(* ----------------- Open3D / numpy operations of clean_mesh ------------- *)

\* the k-th smallest entry (with repeats) of a sequence of integers
SortedAt(d, k) ==
    CHOOSE v \in {d[i] : i \in 1..Len(d)} :
        /\ Cardinality({i \in 1..Len(d) : d[i] < v}) < k
        /\ k <= Cardinality({i \in 1..Len(d) : d[i] <= v})

\* QuantileScale * np.quantile(d, q / QuantileScale) for a non-empty d:
\* linear interpolation between the two order statistics around q * (n - 1)
QuantileScaled(d, q) ==
    LET num == q * (Len(d) - 1)
        lo  == (num \div QuantileScale) + 1
        fr  == num % QuantileScale
    IN  IF fr = 0
          THEN QuantileScale * SortedAt(d, lo)
          ELSE QuantileScale * SortedAt(d, lo)
                 + fr * (SortedAt(d, lo + 1) - SortedAt(d, lo))

\* faulty variant of LowDensityMask: vertices at the threshold are masked too
LowDensityMaskInclusive(d, q) ==
    {i \in 1..Len(d) : QuantileScale * d[i] <= QuantileScaled(d, q)}

\* densities < np.quantile(densities, density_threshold), as the set of
\* vertex indices where the mask is True
LowDensityMask(d, q) ==
    {i \in 1..Len(d) : QuantileScale * d[i] < QuantileScaled(d, q)}

\* mesh.remove_vertices_by_mask: drops the masked vertices and every triangle
\* that names one of them; the remaining indices are renumbered
RemoveVerticesByMask(m, mask) ==
    LET keepV == (1..Len(m.verts)) \ mask
        keepT == {i \in 1..Len(m.tris) : \A k \in 1..3 : m.tris[i][k] \in keepV}
        old   == SubSeqBy(m.tris, keepT)
    IN  [verts |-> SubSeqBy(m.verts, keepV),
         tris  |-> [i \in 1..Len(old) |->
                      [k \in 1..3 |-> NewIndex(keepV, old[i][k])]]]

\* mesh.remove_degenerate_triangles: drops triangles naming a vertex twice
RemoveDegenerateTriangles(m) ==
    LET keepT == {i \in 1..Len(m.tris) :
                    Cardinality({m.tris[i][k] : k \in 1..3}) = 3}
    IN  [m EXCEPT !.tris = SubSeqBy(m.tris, keepT)]

\* a triangle rotated so that its smallest index comes first (orientation kept)
Canonical(t) ==
    IF t[1] <= t[2] /\ t[1] <= t[3] THEN t
    ELSE IF t[2] <= t[1] /\ t[2] <= t[3] THEN <<t[2], t[3], t[1]>>
    ELSE <<t[3], t[1], t[2]>>

\* mesh.remove_duplicated_triangles: keeps the first of every group of
\* triangles that agree up to rotation
RemoveDuplicatedTriangles(m) ==
    LET keepT == {i \in 1..Len(m.tris) :
                    \A j \in 1..(i - 1) : Canonical(m.tris[j]) # Canonical(m.tris[i])}
    IN  [m EXCEPT !.tris = SubSeqBy(m.tris, keepT)]

\* the first vertex with the position of vertex i
FirstWithPosition(verts, i) ==
    CHOOSE j \in 1..i : verts[j] = verts[i] /\ \A x \in 1..(j - 1) : verts[x] # verts[i]

\* mesh.remove_duplicated_vertices: merges vertices with equal positions into
\* the first of them and renumbers the triangles
RemoveDuplicatedVertices(m) ==
    LET keepV == {i \in 1..Len(m.verts) : FirstWithPosition(m.verts, i) = i}
    IN  [verts |-> SubSeqBy(m.verts, keepV),
         tris  |-> [i \in 1..Len(m.tris) |->
                      [k \in 1..3 |->
                         NewIndex(keepV, FirstWithPosition(m.verts, m.tris[i][k]))]]]

\* squared length of the cross product of two sides: (2 * area)^2
Sub(a, b) == <<a[1] - b[1], a[2] - b[2], a[3] - b[3]>>

Cross(a, b) ==
    <<a[2] * b[3] - a[3] * b[2], a[3] * b[1] - a[1] * b[3], a[1] * b[2] - a[2] * b[1]>>

Area2(m, t) ==
    LET c == Cross(Sub(m.verts[t[2]], m.verts[t[1]]), Sub(m.verts[t[3]], m.verts[t[1]]))
    IN  c[1] * c[1] + c[2] * c[2] + c[3] * c[3]

\* edges with more than two adjacent triangles
NonManifoldEdges(m) == {e \in Edges(m) : Cardinality(OnEdge(m, e)) > 2}

\* faulty variant of RemoveNonManifoldEdges: a non-manifold edge is resolved
\* by adding a copy of its end points instead of deleting triangles
RemoveNonManifoldBySplitting(m) ==
    IF NonManifoldEdges(m) = {} THEN m
    ELSE LET e == CHOOSE x \in NonManifoldEdges(m) : TRUE
         IN  [m EXCEPT !.verts = m.verts \o SubSeqBy(m.verts, e)]

\* mesh.remove_non_manifold_edges: while an edge has more than two adjacent
\* triangles, the adjacent triangle of smallest area is deleted
RECURSIVE RemoveNonManifoldEdges(_)
RemoveNonManifoldEdges(m) ==
    IF NonManifoldEdges(m) = {} THEN m
    ELSE LET cand == UNION {OnEdge(m, e) : e \in NonManifoldEdges(m)}
             victim == CHOOSE i \in cand :
                         \A j \in cand :
                            \/ Area2(m, m.tris[i]) < Area2(m, m.tris[j])
                            \/ (Area2(m, m.tris[i]) = Area2(m, m.tris[j]) /\ i <= j)
         IN  RemoveNonManifoldEdges(
                [m EXCEPT !.tris = SubSeqBy(m.tris, (1..Len(m.tris)) \ {victim})])

(* -------------------- trimesh operations of make_watertight ------------ *)

\* vertices named by some triangle
Referenced(m) == {m.tris[p[1]][p[2]] : p \in (1..Len(m.tris)) \X (1..3)}

\* the first referenced vertex with the position of vertex i
FirstReferenced(m, i) ==
    CHOOSE j \in Referenced(m) :
        /\ m.verts[j] = m.verts[i]
        /\ \A x \in Referenced(m) : m.verts[x] = m.verts[i] => j <= x

\* trimesh.Trimesh(vertices=..., faces=...): the constructor processes the
\* arrays, merging vertices with equal positions and dropping vertices no
\* face names; an empty mesh is left as it is
TrimeshConstruct(m) ==
    IF Len(m.verts) = 0 \/ Len(m.tris) = 0 THEN m
    ELSE LET keepV == {i \in Referenced(m) : FirstReferenced(m, i) = i}
         IN  [verts |-> SubSeqBy(m.verts, keepV),
              tris  |-> [i \in 1..Len(m.tris) |->
                           [k \in 1..3 |->
                              NewIndex(keepV, FirstReferenced(m, m.tris[i][k]))]]]

\* Open3D mesh rebuilt from a trimesh (vertices -> vertices, faces -> triangles)
ToOpen3D(tm) == [verts |-> tm.verts, tris |-> tm.tris]

\* edges included in one face only
BoundaryEdges(m) == {e \in Edges(m) : Cardinality(OnEdge(m, e)) = 1}

\* faces hole filling may add: triangles over existing vertices with at least
\* two sides on the boundary (a triangular hole, or half of a quad hole)
FillCandidates(m) ==
    {t \in (1..Len(m.verts)) \X (1..Len(m.verts)) \X (1..Len(m.verts)) :
        /\ t[1] < t[2] /\ t[2] < t[3]
        /\ Cardinality({k \in 1..3 : EdgeAt(t, k) \in BoundaryEdges(m)}) >= 2}

RECURSIVE SetToSeq(_)
SetToSeq(S) ==
    IF S = {} THEN <<>>
    ELSE LET x == CHOOSE y \in S : \A z \in S : <<y[1], y[2], y[3]>> = <<z[1], z[2], z[3]>>
                                      \/ y[1] < z[1]
                                      \/ (y[1] = z[1] /\ y[2] < z[2])
                                      \/ (y[1] = z[1] /\ y[2] = z[2] /\ y[3] < z[3])
         IN  <<x>> \o SetToSeq(S \ {x})

\* trimesh.repair.fill_holes(tri_mesh): appends faces over boundary loops (at
\* most two per call here), never touching vertices or existing faces; it may
\* also add nothing
FillHolesOutcomes(m) ==
    {[m EXCEPT !.tris = m.tris \o SetToSeq(extra)] :
        extra \in {x \in SUBSET FillCandidates(m) : Cardinality(x) <= 2}}

\* one voxel as a box: 8 corners, 12 triangles
OneBox ==
    [verts |-> << <<0,0,0>>, <<2,0,0>>, <<2,2,0>>, <<0,2,0>>,
                  <<0,0,2>>, <<2,0,2>>, <<2,2,2>>, <<0,2,2>> >>,
     tris  |-> << <<1,3,2>>, <<1,4,3>>, <<5,6,7>>, <<5,7,8>>,
                  <<1,2,6>>, <<1,6,5>>, <<4,7,3>>, <<4,8,7>>,
                  <<1,5,8>>, <<1,8,4>>, <<2,3,7>>, <<2,7,6>> >>]

\* two face-adjacent voxels as boxes with their common corners merged: the
\* inner face is present twice, so its edges lie on four triangles
TwoBoxes ==
    [verts |-> OneBox.verts \o << <<4,0,0>>, <<4,2,0>>, <<4,2,2>>, <<4,0,2>> >>,
     tris  |-> OneBox.tris \o
               << <<2,10,9>>, <<2,3,10>>, <<6,12,11>>, <<6,11,7>>,
                  <<2,9,12>>, <<2,12,6>>, <<3,11,10>>, <<3,7,11>>,
                  <<2,6,7>>, <<2,7,3>>, <<9,10,11>>, <<9,11,12>> >>]

\* tri_mesh.voxelized(pitch).as_boxes().to_mesh() for a non-empty mesh: a
\* mesh of boxes, closed or not
VoxelizeOutcomes(m) == {OneBox, TwoBoxes}

\* vertices sharing an edge with vertex i
Neighbours(m, i) ==
    {j \in 1..Len(m.verts) : j # i /\ \E p \in (1..Len(m.tris)) \X (1..3) :
                                         EdgeAt(m.tris[p[1]], p[2]) = {i, j}}

RECURSIVE SumPos(_, _)
SumPos(m, S) ==
    IF S = {} THEN <<0, 0, 0>>
    ELSE LET j == CHOOSE x \in S : TRUE
             r == SumPos(m, S \ {j})
         IN  <<m.verts[j][1] + r[1], m.verts[j][2] + r[2], m.verts[j][3] + r[3]>>

\* trimesh.smoothing.filter_laplacian(tri_mesh): moves every vertex towards
\* its neighbours and keeps the faces; positions are kept in integers by
\* scaling each vertex by twice its degree: 2*deg*v' = deg*v + sum(neighbours)
FilterLaplacian(m) ==
    [m EXCEPT !.verts =
        [i \in 1..Len(m.verts) |->
            LET N == Neighbours(m, i)
                s == SumPos(m, N)
                d == Cardinality(N)
            IN  <<d * m.verts[i][1] + s[1], d * m.verts[i][2] + s[2],
                  d * m.verts[i][3] + s[3]>>]]

(* ----------------------- paths and export formats ---------------------- *)

\* A path is a sequence of tokens: "/" separates components, "." starts an
\* extension, every other token is a run of ordinary characters.

\* the last position of token c in s, 0 if there is none
LastIndexOf(s, c) ==
    LET at == {i \in 1..Len(s) : s[i] = c}
    IN  IF at = {} THEN 0 ELSE CHOOSE i \in at : \A j \in at : j <= i

\* str(Path(p)): repeated separators collapse and trailing ones are dropped
Normalize(p) ==
    SubSeqBy(p, {i \in 1..Len(p) :
                   ~(/\ p[i] = "/"
                     /\ i > 1
                     /\ \/ p[i - 1] = "/"
                        \/ \A j \in i..Len(p) : p[j] = "/")})

\* Path.name: the last component
PathName(p) ==
    LET q == Normalize(p)
    IN  SubSeq(q, LastIndexOf(q, "/") + 1, Len(q))

\* Path.suffix of a name: from its last dot on, unless that dot is the first
\* or the last character of the name
PathSuffix(name) ==
    LET i == LastIndexOf(name, ".")
    IN  IF 1 < i /\ i < Len(name) THEN SubSeq(name, i, Len(name)) ELSE <<>>

\* Path.stem: the name without its suffix
PathStem(p) ==
    LET name == PathName(p)
    IN  SubSeq(name, 1, Len(name) - Len(PathSuffix(name)))

\* with_suffix raises ValueError for an empty name and for the suffix "."
WithSuffixRaises(p, fmt) == PathName(p) = <<>> \/ fmt = ""

\* faulty variant of WithSuffix: the extension is appended to the name as it is
WithSuffixAppended(p, fmt) == Normalize(p) \o <<".", fmt>>

\* str(Path(p).with_suffix("." + fmt)): the suffix of the name is replaced,
\* or the new one appended when the name has none
WithSuffix(p, fmt) ==
    LET q == Normalize(p)
    IN  SubSeq(q, 1, Len(q) - Len(PathSuffix(PathName(p)))) \o <<".", fmt>>

\* os.path.join(directory, name)
PathJoin(dir, name) == dir \o <<"/">> \o name

\* str.lower() on the format tokens used here
Lower(t) == IF t = "OBJ" THEN "obj" ELSE t

\* the file type mesh.export(path) derives from the path: the lower-cased text
\* after the last dot
ExportType(p) ==
    LET k == LastIndexOf(p, ".")
    IN  IF k > 0 /\ Len(p) = k + 1 THEN Lower(p[k + 1]) ELSE "none"

\* the file types the exporter used here can write
SupportedTypes == {"obj", "ply", "stl"}

\* output_format="obj" default of convert_to_watertight_mesh
DefaultFormat == "obj"

\* format identifiers callers pass: supported ones, one in capitals, one
\* without an exporter, and the empty string
Formats == {"obj", "ply", "OBJ", "txt", ""}

\* output_dir="data/output" default of convert_to_watertight_mesh
DefaultOutputDir == <<"data", "/", "output">>

\* the ply_path handed to the pipeline
PlyPath == <<"data", "/", "cloud", ".", "v2", ".", "ply">>

\* paths callers hand to save_mesh: with the extension of another format,
\* without extension, with two extensions, in a directory with a dot, hidden,
\* with doubled and trailing separators
SavePaths ==
    { <<"output", "/", "model", ".", "obj">>,
      <<"output", "/", "model">>,
      <<"output", "/", "model", ".", "tar", ".", "ply">>,
      <<"output", ".", "d", "/", "model">>,
      <<".", "model">>,
      <<"output", "/", "/", "model", ".", "stl", "/">> }

(* ------------------------------ state ---------------------------------- *)

VARIABLES
    pc,          \* position in the method being run
    entry,       \* the public method the caller invoked
    args,        \* arguments of convert_to_watertight_mesh
    dirCreated,  \* os.makedirs(output_dir) has run
    pcd,         \* the loaded point cloud: sample count and normals
    mesh,        \* the Open3D mesh being processed
    densities,   \* the densities argument of clean_mesh
    quantile,    \* the density_threshold argument of clean_mesh, in hundredths
    tri_mesh,    \* the trimesh of make_watertight
    reported,    \* what make_watertight printed after its last check
    repairLog,   \* checks and repairs of the current make_watertight call
    runs,        \* make_watertight calls made by a caller that repeats it
    trace,       \* stages of the pipeline, as they start and end
    hist,        \* meshes that crossed the stage boundaries
    cleanLog,    \* vertex and triangle counts after each clean_mesh step
    ret,         \* what the caller received: a return value or an exception
    saveArgs,    \* the output_path and file_format arguments of save_mesh
    outputPath,  \* output_path of save_mesh after the extension is set
    files,       \* files written by mesh.export: path and file type
    saveRuns,    \* save_mesh calls made by a caller that repeats it
    batch,       \* example_3_batch_processing: loop position and results
    gui,         \* the App object: selected_points and current_image
    handler      \* the Gradio handler in progress and what it has done

\* the state of save_mesh
saveVars == <<saveArgs, outputPath, files, saveRuns>>

\* the state of the callers around the converter: the batch example, the GUI
hostVars == <<batch, gui, handler>>

vars == <<pc, entry, args, dirCreated, pcd, mesh, densities, quantile, tri_mesh,
          reported, repairLog, runs, trace, hist, cleanLog, ret, saveVars, hostVars>>

\* most calls of make_watertight a caller chains on one mesh
MaxRepairRuns == 2

\* depth arguments: an out-of-range one and the default
DepthValues == {0, DefaultDepth}

\* sample counts of the clouds loaded: none, two, and a larger cloud
PointCounts == {0, 2, MaxPoints}

\* per-vertex densities (cut to the vertex count): all equal, one lowest
\* vertex, two lowest vertices
DensityPatterns == { <<2, 2, 2, 2, 2>>, <<3, 2, 3, 1, 2>>, <<1, 3, 1, 2, 3>> }

\* the densities a reconstruction in the pipeline may report
ReconstructionDensities == { <<2, 2, 2, 2, 2>>, <<3, 2, 3, 1, 2>> }

\* density_threshold values of a direct clean_mesh call, in hundredths
Quantiles == {0, DefaultDensityThreshold, 50, QuantileScale}

NoDensities == [present |-> FALSE, vals |-> <<>>]

NoArgs == [n |-> 0, fileNormals |-> FALSE, depth |-> DefaultDepth, clean |-> TRUE,
           format |-> DefaultFormat]

\* argument tuples of convert_to_watertight_mesh: every cloud, depth and clean
\* flag with the default format, and every other format with a full cloud
\* that carries normals
ConvertArgs ==
    { [n |-> n, fileNormals |-> fn, depth |-> d, clean |-> c, format |-> DefaultFormat] :
        n \in PointCounts, fn \in BOOLEAN, d \in DepthValues, c \in BOOLEAN }
    \cup
    { [n |-> MaxPoints, fileNormals |-> TRUE, depth |-> DefaultDepth, clean |-> TRUE,
       format |-> f] : f \in Formats }

NoHist == [reconOut |-> <<>>, cleanIn |-> <<>>, cleanOut |-> <<>>,
           repairIn |-> <<>>, repairOut |-> <<>>, exported |-> <<>>,
           firstResult |-> <<>>, exportOutcome |-> "none", suppliedPath |-> <<>>,
           firstPath |-> <<>>, removed |-> <<>>]

NoSaveArgs == [path |-> <<>>, format |-> DefaultFormat]

NoReturn == [kind |-> "none"]

\* example_3_batch_processing before its loop: no item begun, no local bound
NoBatch == [step |-> "idle", i |-> 0, image |-> 0, mask |-> 0, ply_path |-> 0,
            mesh_path |-> 0, attempted |-> <<>>, outcome |-> <<>>, results |-> <<>>]

\* the value gen.ret and click.ret hold while nothing has been returned
NoOutput == [kind |-> "none"]

\* App after __init__, with the image component of the page still empty
NoGui == [input_image |-> "none", current_image |-> "none", selected_points |-> <<>>]

\* the three event listeners of the page, none of them running
NoHandler == [click |-> "idle", clickImage |-> "none", clickPoint |-> <<>>,
              clickRet |-> NoOutput,
              clear |-> "idle", clearRet |-> NoOutput,
              gen |-> "idle", genImage |-> "none", calls |-> <<>>, genRet |-> NoOutput]

Counts(step, m) == [step |-> step, nv |-> Len(m.verts), nt |-> Len(m.tris)]

Started(stage) == [stage |-> stage, ev |-> "start"]
Ended(stage)   == [stage |-> stage, ev |-> "end"]

Init ==
    /\ pc = "idle"
    /\ entry = "none"
    /\ args = NoArgs
    /\ dirCreated = FALSE
    /\ pcd = [n |-> 0, normals |-> "none"]
    /\ mesh = EmptyMesh
    /\ densities = NoDensities
    /\ quantile = DefaultDensityThreshold
    /\ tri_mesh = EmptyMesh
    /\ reported = "none"
    /\ repairLog = <<>>
    /\ runs = 0
    /\ trace = <<>>
    /\ hist = NoHist
    /\ cleanLog = <<>>
    /\ ret = NoReturn
    /\ saveArgs = NoSaveArgs
    /\ outputPath = <<>>
    /\ files = {}
    /\ saveRuns = 0
    /\ batch = NoBatch
    /\ gui = NoGui
    /\ handler = NoHandler

(* ------------------------------ callers -------------------------------- *)

\* a caller invokes convert_to_watertight_mesh(ply_path, depth=..., clean=...,
\* output_format=...)
CallConvert ==
    /\ pc = "idle"
    /\ \E a \in ConvertArgs : args' = a
    /\ entry' = "convert"
    /\ pc' = "makedirs"
    /\ UNCHANGED <<dirCreated, pcd, mesh, densities, quantile, tri_mesh, reported,
                   repairLog, runs, trace, hist, cleanLog, ret>>
    /\ UNCHANGED <<saveVars, hostVars>>

\* a caller invokes clean_mesh(mesh, densities=..., density_threshold=...)
CallCleanMesh ==
    /\ pc = "idle"
    /\ \E m \in MeshUniverse, q \in Quantiles :
         /\ mesh' = m
         /\ quantile' = q
         /\ \/ densities' = NoDensities
            \/ \E d \in DensityPatterns :
                 densities' = [present |-> TRUE, vals |-> SubSeq(d, 1, Len(m.verts))]
         /\ hist' = [hist EXCEPT !.cleanIn = <<m>>]
    /\ entry' = "clean_mesh"
    /\ pc' = "clean_density"
    /\ UNCHANGED <<args, dirCreated, pcd, tri_mesh, reported, repairLog, runs,
                   trace, cleanLog, ret>>
    /\ UNCHANGED <<saveVars, hostVars>>

\* a caller invokes make_watertight(mesh)
CallMakeWatertight ==
    /\ pc = "idle"
    /\ \E m \in MeshUniverse :
         /\ mesh' = m
         /\ hist' = [hist EXCEPT !.repairIn = <<m>>]
    /\ entry' = "make_watertight"
    /\ runs' = 1
    /\ pc' = "mw_construct"
    /\ UNCHANGED <<args, dirCreated, pcd, densities, quantile, tri_mesh, reported,
                   repairLog, trace, cleanLog, ret>>
    /\ UNCHANGED <<saveVars, hostVars>>

\* the caller hands the returned trimesh, as an Open3D mesh, to
\* make_watertight again
CallMakeWatertightAgain ==
    /\ pc = "done"
    /\ entry = "make_watertight"
    /\ ret.kind = "mesh"
    /\ runs < MaxRepairRuns
    /\ mesh' = ToOpen3D(ret.mesh)
    /\ hist' = [hist EXCEPT !.repairIn = <<ToOpen3D(ret.mesh)>>,
                            !.firstResult = IF runs = 1 THEN <<ret.mesh>> ELSE @]
    /\ runs' = runs + 1
    /\ repairLog' = <<>>
    /\ reported' = "none"
    /\ ret' = NoReturn
    /\ pc' = "mw_construct"
    /\ UNCHANGED <<entry, args, dirCreated, pcd, densities, quantile, tri_mesh,
                   trace, cleanLog>>
    /\ UNCHANGED <<saveVars, hostVars>>

\* an exception leaves the running method and reaches the caller
Raise(what) ==
    /\ pc' = "raised"
    /\ ret' = [kind |-> "exception", from |-> what]

(* ------------------- convert_to_watertight_mesh ------------------------ *)

MakeDirs ==
    /\ pc = "makedirs"
    /\ dirCreated' = TRUE
    /\ pc' = "load"
    /\ UNCHANGED <<entry, args, pcd, mesh, densities, quantile, tri_mesh, reported,
                   repairLog, runs, trace, hist, cleanLog, ret>>
    /\ UNCHANGED <<saveVars, hostVars>>

\* load_point_cloud: the file's samples, with the normals the file carries
LoadPointCloud ==
    /\ pc = "load"
    /\ pcd' = [n |-> args.n,
               normals |-> IF args.fileNormals /\ args.n > 0 THEN "file" ELSE "none"]
    /\ trace' = trace \o <<Started("load"), Ended("load")>>
    /\ pc' = "normals"
    /\ UNCHANGED <<entry, args, dirCreated, mesh, densities, quantile, tri_mesh,
                   reported, repairLog, runs, hist, cleanLog, ret>>
    /\ UNCHANGED <<saveVars, hostVars>>

\* faulty variant of HasNormals: the test lost, normals are always estimated
HasNormalsNever(p) == FALSE

\* pcd.has_normals(): the cloud has samples and a normal for each
HasNormals(p) == p.n > 0 /\ p.normals # "none"

\* estimate_normals, run when the cloud has no normals: normals are estimated
\* and oriented; orienting raises when no normals could be estimated (an empty
\* cloud) and may raise on a cloud too small for its neighbourhood graph
EstimateNormals ==
    /\ pc = "normals"
    /\ ~HasNormals(pcd)
    /\ \/ /\ pcd.n > 0
          /\ pcd' = [pcd EXCEPT !.normals = "estimated"]
          /\ trace' = trace \o <<Started("estimate_normals"), Ended("estimate_normals")>>
          /\ pc' = "reconstruct"
          /\ ret' = ret
       \/ /\ pcd' = pcd
          /\ trace' = trace \o <<Started("estimate_normals")>>
          /\ Raise("estimate_normals")
    /\ UNCHANGED <<entry, args, dirCreated, mesh, densities, quantile, tri_mesh,
                   reported, repairLog, runs, hist, cleanLog>>
    /\ UNCHANGED <<saveVars, hostVars>>

\* the cloud already has normals: estimate_normals is not called
SkipNormals ==
    /\ pc = "normals"
    /\ HasNormals(pcd)
    /\ pc' = "reconstruct"
    /\ UNCHANGED <<entry, args, dirCreated, pcd, mesh, densities, quantile, tri_mesh,
                   reported, repairLog, runs, trace, hist, cleanLog, ret>>
    /\ UNCHANGED <<saveVars, hostVars>>

\* faulty variant of AfterReconstruction: the clean flag ignored, clean_mesh
\* is never called
AfterReconstructionNoClean(clean) == "mw_construct"

\* where the pipeline goes after reconstruction: clean_mesh if clean is set
AfterReconstruction(clean) == IF clean THEN "clean_density" ELSE "mw_construct"

\* poisson_reconstruction(pcd, depth): some mesh with one density per vertex;
\* then "if clean:" selects the next stage
PoissonReconstruction ==
    /\ pc = "reconstruct"
    /\ \E m \in MeshUniverse, d \in ReconstructionDensities :
         /\ mesh' = m
         /\ densities' = [present |-> TRUE, vals |-> SubSeq(d, 1, Len(m.verts))]
         /\ hist' = [hist EXCEPT !.reconOut = <<m>>,
                                 !.cleanIn = IF args.clean THEN <<m>> ELSE @,
                                 !.repairIn = IF args.clean THEN @ ELSE <<m>>]
    /\ quantile' = DefaultDensityThreshold
    /\ trace' = trace \o <<Started("reconstruct"), Ended("reconstruct")>>
    /\ pc' = AfterReconstruction(args.clean)
    /\ UNCHANGED <<entry, args, dirCreated, pcd, tri_mesh, reported, repairLog,
                   runs, cleanLog, ret>>
    /\ UNCHANGED <<saveVars, hostVars>>

(* ------------------------------ clean_mesh ----------------------------- *)

\* "if densities is not None": remove the low-density vertices.  np.quantile
\* of an empty array raises or yields nan (nothing compares below nan)
CleanDensity ==
    /\ pc = "clean_density"
    /\ trace' = IF entry = "convert" THEN trace \o <<Started("clean")>> ELSE trace
    /\ IF ~densities.present
         THEN /\ mesh' = mesh
              /\ cleanLog' = <<>>
              /\ pc' = "clean_degenerate"
              /\ ret' = ret
         ELSE IF Len(densities.vals) = 0
           THEN \/ /\ mesh' = mesh
                   /\ cleanLog' = <<Counts("density", mesh)>>
                   /\ pc' = "clean_degenerate"
                   /\ ret' = ret
                \/ /\ mesh' = mesh
                   /\ cleanLog' = <<>>
                   /\ Raise("clean_mesh")
           ELSE LET m == RemoveVerticesByMask(mesh, LowDensityMask(densities.vals, quantile))
                IN  /\ mesh' = m
                    /\ cleanLog' = <<Counts("density", m)>>
                    /\ pc' = "clean_degenerate"
                    /\ ret' = ret
    /\ hist' = [hist EXCEPT !.removed =
                   IF densities.present /\ Len(densities.vals) > 0
                     THEN <<LowDensityMask(densities.vals, quantile)>> ELSE @]
    /\ UNCHANGED <<entry, args, dirCreated, pcd, densities, quantile, tri_mesh,
                   reported, repairLog, runs>>
    /\ UNCHANGED <<saveVars, hostVars>>

\* one topology pass of clean_mesh: the mesh is replaced by the pass's result
CleanPass(at, step, result, next) ==
    /\ pc = at
    /\ mesh' = result
    /\ cleanLog' = Append(cleanLog, Counts(step, result))
    /\ pc' = next
    /\ UNCHANGED <<entry, args, dirCreated, pcd, densities, quantile, tri_mesh,
                   reported, repairLog, runs, trace, hist, ret>>
    /\ UNCHANGED <<saveVars, hostVars>>

CleanDegenerate ==
    CleanPass("clean_degenerate", "degenerate",
              RemoveDegenerateTriangles(mesh), "clean_dup_tris")

CleanDuplicatedTriangles ==
    CleanPass("clean_dup_tris", "duplicated_triangles",
              RemoveDuplicatedTriangles(mesh), "clean_dup_verts")

CleanDuplicatedVertices ==
    CleanPass("clean_dup_verts", "duplicated_vertices",
              RemoveDuplicatedVertices(mesh), "clean_non_manifold")

CleanNonManifold ==
    CleanPass("clean_non_manifold", "non_manifold",
              RemoveNonManifoldEdges(mesh), "clean_return")

\* "return mesh": back in the pipeline the cleaned mesh goes to
\* make_watertight; a direct caller receives it
CleanReturn ==
    /\ pc = "clean_return"
    /\ hist' = [hist EXCEPT !.cleanOut = <<mesh>>,
                            !.repairIn = IF entry = "convert" THEN <<mesh>> ELSE @]
    /\ IF entry = "convert"
         THEN /\ trace' = Append(trace, Ended("clean"))
              /\ pc' = "mw_construct"
              /\ ret' = ret
         ELSE /\ trace' = trace
              /\ pc' = "done"
              /\ ret' = [kind |-> "mesh", mesh |-> mesh]
    /\ UNCHANGED <<entry, args, dirCreated, pcd, mesh, densities, quantile, tri_mesh,
                   reported, repairLog, runs, cleanLog>>
    /\ UNCHANGED <<saveVars, hostVars>>

(* ---------------------------- make_watertight -------------------------- *)

\* tri_mesh = trimesh.Trimesh(vertices=vertices, faces=triangles)
MWConstruct ==
    /\ pc = "mw_construct"
    /\ tri_mesh' = TrimeshConstruct(mesh)
    /\ repairLog' = <<>>
    /\ reported' = "none"
    /\ trace' = IF entry = "convert" THEN Append(trace, Started("repair")) ELSE trace
    /\ pc' = "mw_check_entry"
    /\ UNCHANGED <<entry, args, dirCreated, pcd, mesh, densities, quantile, runs,
                   hist, cleanLog, ret>>
    /\ UNCHANGED <<saveVars, hostVars>>

\* faulty variant of AfterEntryCheck: the first test inverted, hole filling
\* on a watertight mesh
AfterEntryCheckInverted(watertight) ==
    IF watertight THEN "mw_fill" ELSE "mw_check_filled"

\* where make_watertight goes after its first check: hole filling if the mesh
\* is not watertight
AfterEntryCheck(watertight) == IF watertight THEN "mw_check_filled" ELSE "mw_fill"

\* "if not tri_mesh.is_watertight:" (method 1)
MWCheckEntry ==
    /\ pc = "mw_check_entry"
    /\ repairLog' = Append(repairLog,
                           IF IsWatertight(tri_mesh) THEN "entry_closed" ELSE "entry_open")
    /\ pc' = AfterEntryCheck(IsWatertight(tri_mesh))
    /\ UNCHANGED <<entry, args, dirCreated, pcd, mesh, densities, quantile, tri_mesh,
                   reported, runs, trace, hist, cleanLog, ret>>
    /\ UNCHANGED <<saveVars, hostVars>>

\* trimesh.repair.fill_holes(tri_mesh)
MWFillHoles ==
    /\ pc = "mw_fill"
    /\ tri_mesh' \in FillHolesOutcomes(tri_mesh)
    /\ repairLog' = Append(repairLog, "fill_holes")
    /\ pc' = "mw_check_filled"
    /\ UNCHANGED <<entry, args, dirCreated, pcd, mesh, densities, quantile, reported,
                   runs, trace, hist, cleanLog, ret>>
    /\ UNCHANGED <<saveVars, hostVars>>

\* faulty variant of AfterFilledCheck: the second test dropped, every mesh
\* is voxelised
AfterFilledCheckAlways(watertight) == "mw_voxelize"

\* where make_watertight goes after its second check: voxelisation if the
\* mesh is still not watertight
AfterFilledCheck(watertight) == IF watertight THEN "mw_check_final" ELSE "mw_voxelize"

\* "if not tri_mesh.is_watertight:" (method 2)
MWCheckFilled ==
    /\ pc = "mw_check_filled"
    /\ repairLog' = Append(repairLog,
                           IF IsWatertight(tri_mesh) THEN "filled_closed" ELSE "filled_open")
    /\ pc' = AfterFilledCheck(IsWatertight(tri_mesh))
    /\ UNCHANGED <<entry, args, dirCreated, pcd, mesh, densities, quantile, tri_mesh,
                   reported, runs, trace, hist, cleanLog, ret>>
    /\ UNCHANGED <<saveVars, hostVars>>

\* pitch from the bounding box, voxelized(pitch), as_boxes().to_mesh(): an
\* empty mesh has no bounding box and the call raises; the subdivision behind
\* voxelized may raise for any mesh
MWVoxelize ==
    /\ pc = "mw_voxelize"
    /\ repairLog' = Append(repairLog, "voxelize")
    /\ \/ /\ Len(tri_mesh.tris) > 0
          /\ tri_mesh' \in VoxelizeOutcomes(tri_mesh)
          /\ pc' = "mw_smooth"
          /\ ret' = ret
       \/ /\ tri_mesh' = tri_mesh
          /\ Raise("make_watertight")
    /\ UNCHANGED <<entry, args, dirCreated, pcd, mesh, densities, quantile, reported,
                   runs, trace, hist, cleanLog>>
    /\ UNCHANGED <<saveVars, hostVars>>

\* tri_mesh = trimesh.smoothing.filter_laplacian(tri_mesh)
MWSmooth ==
    /\ pc = "mw_smooth"
    /\ tri_mesh' = FilterLaplacian(tri_mesh)
    /\ repairLog' = Append(repairLog, "smooth")
    /\ pc' = "mw_check_final"
    /\ UNCHANGED <<entry, args, dirCreated, pcd, mesh, densities, quantile, reported,
                   runs, trace, hist, cleanLog, ret>>
    /\ UNCHANGED <<saveVars, hostVars>>

\* faulty variant of FinalReport: success printed without the last check
FinalReportUnchecked(m) == "Done"

\* the message of the last check: "Mesh is now watertight!" (Done) or
\* "Warning: Mesh may not be fully watertight" (Failed)
FinalReport(m) == IF IsWatertight(m) THEN "Done" ELSE "Failed"

\* "if tri_mesh.is_watertight: print(...) else: print(...)"
MWCheckFinal ==
    /\ pc = "mw_check_final"
    /\ reported' = FinalReport(tri_mesh)
    /\ repairLog' = Append(repairLog,
                           IF IsWatertight(tri_mesh) THEN "final_closed" ELSE "final_open")
    /\ pc' = "mw_return"
    /\ UNCHANGED <<entry, args, dirCreated, pcd, mesh, densities, quantile, tri_mesh,
                   runs, trace, hist, cleanLog, ret>>
    /\ UNCHANGED <<saveVars, hostVars>>

\* what make_watertight hands back: the trimesh, and nothing else
RepairResult(tm) == [kind |-> "mesh", mesh |-> tm]

\* "return tri_mesh"
MWReturn ==
    /\ pc = "mw_return"
    /\ hist' = [hist EXCEPT !.repairOut = <<tri_mesh>>]
    /\ IF entry = "convert"
         THEN /\ trace' = Append(trace, Ended("repair"))
              /\ pc' = "save"
              /\ ret' = ret
         ELSE /\ trace' = trace
              /\ pc' = "done"
              /\ ret' = RepairResult(tri_mesh)
    /\ UNCHANGED <<entry, args, dirCreated, pcd, mesh, densities, quantile, tri_mesh,
                   reported, repairLog, runs, cleanLog>>
    /\ UNCHANGED <<saveVars, hostVars>>

(* ------------------------- save_mesh and return ------------------------ *)

\* most calls of save_mesh a caller chains on one path
MaxSaveRuns == 2

\* the text after the stem in f"{base_name}_watertight.{output_format}"
WatertightName(fmt) ==
    IF fmt = "" THEN <<"_watertight", ".">> ELSE <<"_watertight", ".", fmt>>

\* a caller invokes save_mesh(tri_mesh, output_path, file_format)
CallSaveMesh ==
    /\ pc = "idle"
    /\ \E path \in SavePaths, fmt \in Formats :
         /\ saveArgs' = [path |-> path, format |-> fmt]
         /\ hist' = [hist EXCEPT !.suppliedPath = <<path>>]
    /\ tri_mesh' \in {OneBox, TwoBoxes}
    /\ entry' = "save_mesh"
    /\ saveRuns' = 1
    /\ pc' = "sm_suffix"
    /\ UNCHANGED <<args, dirCreated, pcd, mesh, densities, quantile, reported,
                   repairLog, runs, trace, cleanLog, ret, outputPath, files>>
    /\ UNCHANGED hostVars

\* the caller hands the returned path, with the same format, to save_mesh again
CallSaveMeshAgain ==
    /\ pc = "done"
    /\ entry = "save_mesh"
    /\ ret.kind = "path"
    /\ saveRuns < MaxSaveRuns
    /\ saveArgs' = [saveArgs EXCEPT !.path = ret.path]
    /\ hist' = [hist EXCEPT !.firstPath = IF saveRuns = 1 THEN <<ret.path>> ELSE @,
                            !.exportOutcome = "none"]
    /\ saveRuns' = saveRuns + 1
    /\ outputPath' = <<>>
    /\ ret' = NoReturn
    /\ pc' = "sm_suffix"
    /\ UNCHANGED <<entry, args, dirCreated, pcd, mesh, densities, quantile, tri_mesh,
                   reported, repairLog, runs, trace, cleanLog, files>>
    /\ UNCHANGED hostVars

\* step 6 of the pipeline: the output path is built from the stem of ply_path
\* and save_mesh(tri_mesh, output_path, output_format) is called
SaveMesh ==
    /\ pc = "save"
    /\ saveArgs' = [path |-> PathJoin(DefaultOutputDir,
                                      PathStem(PlyPath) \o WatertightName(args.format)),
                    format |-> args.format]
    /\ trace' = Append(trace, Started("save"))
    /\ pc' = "sm_suffix"
    /\ UNCHANGED <<entry, args, dirCreated, pcd, mesh, densities, quantile, tri_mesh,
                   reported, repairLog, runs, hist, cleanLog, ret, outputPath, files,
                   saveRuns>>
    /\ UNCHANGED hostVars

\* "output_path = str(Path(output_path).with_suffix(f".{file_format}"))"
SMSetSuffix ==
    /\ pc = "sm_suffix"
    /\ IF WithSuffixRaises(saveArgs.path, saveArgs.format)
         THEN /\ outputPath' = outputPath
              /\ hist' = [hist EXCEPT !.exportOutcome = "invalid_suffix"]
              /\ Raise("save_mesh")
         ELSE /\ outputPath' = WithSuffix(saveArgs.path, saveArgs.format)
              /\ hist' = hist
              /\ pc' = "sm_export"
              /\ ret' = ret
    /\ UNCHANGED <<entry, args, dirCreated, pcd, mesh, densities, quantile, tri_mesh,
                   reported, repairLog, runs, trace, cleanLog, saveArgs, files,
                   saveRuns>>
    /\ UNCHANGED hostVars

\* what mesh.export(path) can do: write the file, fail to write it, or refuse
\* a file type it has no exporter for
ExportOutcomes(path) ==
    IF ExportType(path) \in SupportedTypes THEN {"written", "unwritable"}
    ELSE {"unsupported"}

\* faulty variant of AfterExport: a failed export is swallowed and save_mesh
\* goes on to return the path
AfterExportSwallowed(outcome) == "sm_return"

\* where save_mesh goes after mesh.export: on, or out with the exception
AfterExport(outcome) == IF outcome = "written" THEN "sm_return" ELSE "raised"

\* "mesh.export(output_path)"
SMExport ==
    /\ pc = "sm_export"
    /\ \E o \in ExportOutcomes(outputPath) :
         /\ hist' = [hist EXCEPT !.exportOutcome = o,
                                 !.exported = IF o = "written" THEN <<tri_mesh>> ELSE @]
         /\ files' = IF o = "written"
                       THEN files \cup {[path |-> outputPath,
                                         type |-> ExportType(outputPath)]}
                       ELSE files
         /\ pc' = AfterExport(o)
         /\ ret' = IF AfterExport(o) = "raised"
                     THEN [kind |-> "exception", from |-> "save_mesh"]
                     ELSE ret
    /\ UNCHANGED <<entry, args, dirCreated, pcd, mesh, densities, quantile, tri_mesh,
                   reported, repairLog, runs, trace, cleanLog, saveArgs, outputPath,
                   saveRuns>>
    /\ UNCHANGED hostVars

\* what save_mesh and convert_to_watertight_mesh hand back: the output path,
\* and nothing else
ConvertResult(path) == [kind |-> "path", path |-> path]

\* "return output_path" of save_mesh
SMReturn ==
    /\ pc = "sm_return"
    /\ IF entry = "convert"
         THEN /\ trace' = Append(trace, Ended("save"))
              /\ pc' = "convert_return"
              /\ ret' = ret
         ELSE /\ trace' = trace
              /\ pc' = "done"
              /\ ret' = ConvertResult(outputPath)
    /\ UNCHANGED <<entry, args, dirCreated, pcd, mesh, densities, quantile, tri_mesh,
                   reported, repairLog, runs, hist, cleanLog>>
    /\ UNCHANGED <<saveVars, hostVars>>

\* the statistics are printed and "return output_path"
ConvertReturn ==
    /\ pc = "convert_return"
    /\ ret' = ConvertResult(outputPath)
    /\ pc' = "done"
    /\ UNCHANGED <<entry, args, dirCreated, pcd, mesh, densities, quantile, tri_mesh,
                   reported, repairLog, runs, trace, hist, cleanLog>>
    /\ UNCHANGED <<saveVars, hostVars>>

(* ------------------------ example_3_batch_processing -------------------- *)

\* number of entries of images_and_masks
BatchSize == 3

\* the head of "for i, (img_path, mask_path) in enumerate(images_and_masks, 1)":
\* the next item is begun, or the loop is over and results is returned
LoopHeader(b) ==
    IF b.i < BatchSize
      THEN [b EXCEPT !.i = b.i + 1, !.step = "load_image",
                     !.attempted = Append(@, b.i + 1)]
      ELSE [b EXCEPT !.step = "returned"]

\* faulty variant of AfterException: the handler leaves the loop
AfterExceptionBreak(b, stage) ==
    [b EXCEPT !.outcome = Append(@, [item |-> b.i, result |-> "failed", stage |-> stage]),
              !.step = "returned"]

\* "except Exception as e: print(...); continue"
AfterException(b, stage) ==
    LoopHeader([b EXCEPT !.outcome =
                   Append(@, [item |-> b.i, result |-> "failed", stage |-> stage])])

\* the function is entered: both processors are built, results = [] and the
\* loop begins
BatchStart ==
    /\ batch.step = "idle"
    /\ batch' = LoopHeader(NoBatch)
    /\ UNCHANGED <<pc, entry, args, dirCreated, pcd, mesh, densities, quantile,
                   tri_mesh, reported, repairLog, runs, trace, hist, cleanLog, ret>>
    /\ UNCHANGED <<saveVars, gui, handler>>

\* one call inside the try block: it returns and its result is bound to a
\* local, or it raises and the handler takes over
BatchCall(stage, local, next) ==
    /\ batch.step = stage
    /\ \/ batch' = [batch EXCEPT ![local] = batch.i, !.step = next]
       \/ batch' = AfterException(batch, stage)
    /\ UNCHANGED <<pc, entry, args, dirCreated, pcd, mesh, densities, quantile,
                   tri_mesh, reported, repairLog, runs, trace, hist, cleanLog, ret>>
    /\ UNCHANGED <<saveVars, gui, handler>>

\* "image = sam_processor.load_image(img_path)"
BatchLoadImage == BatchCall("load_image", "image", "load_mask")

\* "mask = sam_processor.load_mask(mask_path)"
BatchLoadMask == BatchCall("load_mask", "mask", "generate_point_cloud")

\* "ply_path = sam_processor.generate_point_cloud(image, mask, ...)"
BatchGeneratePointCloud == BatchCall("generate_point_cloud", "ply_path", "convert")

\* "mesh_path = mesh_converter.convert_to_watertight_mesh(ply_path, ...)"
BatchConvert == BatchCall("convert", "mesh_path", "append")

\* "results.append((img_path, ply_path, mesh_path))" and the end of the body
BatchAppend ==
    /\ batch.step = "append"
    /\ batch' = LoopHeader(
           [batch EXCEPT !.results = Append(@, [img |-> batch.i, ply |-> batch.ply_path,
                                                mesh |-> batch.mesh_path]),
                         !.outcome = Append(@, [item |-> batch.i, result |-> "ok",
                                                stage |-> "append"])])
    /\ UNCHANGED <<pc, entry, args, dirCreated, pcd, mesh, densities, quantile,
                   tri_mesh, reported, repairLog, runs, trace, hist, cleanLog, ret>>
    /\ UNCHANGED <<saveVars, gui, handler>>

NextBatch ==
    \/ BatchStart
    \/ BatchLoadImage
    \/ BatchLoadMask
    \/ BatchGeneratePointCloud
    \/ BatchConvert
    \/ BatchAppend

SpecBatch == Init /\ [][NextBatch]_vars

(* ------------------------------- GUI (App) ------------------------------ *)

\* most points a user selects before clearing
MaxSelected == 2

\* pixel coordinates a click can carry
ClickPoints == {<<1, 1>>, <<2, 3>>}

\* values of the image component: empty, or an uploaded picture
Images == {"none", "photo"}

pipelineVars == <<pc, entry, args, dirCreated, pcd, mesh, densities, quantile,
                  tri_mesh, reported, repairLog, runs, trace, hist, cleanLog, ret>>

\* the user uploads a picture into the image component, or empties it
Upload ==
    /\ \E img \in Images \ {gui.input_image} : gui' = [gui EXCEPT !.input_image = img]
    /\ UNCHANGED <<pipelineVars, saveVars, batch, handler>>

\* input_image.select fires process_image_click(image, evt); without an image
\* it returns at once
ClickBegin ==
    /\ handler.click = "idle"
    /\ Len(gui.selected_points) < MaxSelected
    /\ \E p \in ClickPoints :
         IF gui.input_image = "none"
           THEN handler' = [handler EXCEPT !.clickImage = "none", !.clickPoint = p,
                                           !.clickRet = [kind |-> "rejected"]]
           ELSE handler' = [handler EXCEPT !.click = "store", !.clickPoint = p,
                                           !.clickImage = gui.input_image,
                                           !.clickRet = NoOutput]
    /\ UNCHANGED <<pipelineVars, saveVars, batch, gui>>

\* "self.current_image = image"
ClickStore ==
    /\ handler.click = "store"
    /\ gui' = [gui EXCEPT !.current_image = handler.clickImage]
    /\ handler' = [handler EXCEPT !.click = "append"]
    /\ UNCHANGED <<pipelineVars, saveVars, batch>>

\* "self.selected_points.append((x, y))"
ClickAppend ==
    /\ handler.click = "append"
    /\ gui' = [gui EXCEPT !.selected_points = Append(@, handler.clickPoint)]
    /\ handler' = [handler EXCEPT !.click = "draw"]
    /\ UNCHANGED <<pipelineVars, saveVars, batch>>

\* the points are drawn and the annotated image and the status are returned
ClickReturn ==
    /\ handler.click = "draw"
    /\ handler' = [handler EXCEPT !.click = "idle",
                                  !.clickRet = [kind |-> "annotated",
                                                drawn |-> Len(gui.selected_points)]]
    /\ UNCHANGED <<pipelineVars, saveVars, batch, gui>>

\* clear_btn.click fires clear_points: "self.selected_points = []"
ClearAssign ==
    /\ handler.clear = "idle"
    /\ gui' = [gui EXCEPT !.selected_points = <<>>]
    /\ handler' = [handler EXCEPT !.clear = "return", !.clearRet = NoOutput]
    /\ UNCHANGED <<pipelineVars, saveVars, batch>>

\* clear_points returns the stored image (or None) and "Points cleared"
ClearReturn ==
    /\ handler.clear = "return"
    /\ handler' = [handler EXCEPT !.clear = "idle",
                                  !.clearRet = [kind |-> "cleared",
                                                image |-> gui.current_image]]
    /\ UNCHANGED <<pipelineVars, saveVars, batch, gui>>

\* what generate_3d returns when it does not go through: (None, None, message)
NoModel(message) == [kind |-> "tuple", ply |-> "None", mesh |-> "None", message |-> message]

\* generate_btn.click fires generate_3d(image) with the image component's value
GenBegin ==
    /\ handler.gen = "idle"
    /\ handler' = [handler EXCEPT !.gen = "check_image", !.genImage = gui.input_image,
                                  !.calls = <<>>, !.genRet = NoOutput]
    /\ UNCHANGED <<pipelineVars, saveVars, batch, gui>>

\* "if image is None: return None, None, ..."
GenCheckImage ==
    /\ handler.gen = "check_image"
    /\ handler' = IF handler.genImage = "none"
                    THEN [handler EXCEPT !.gen = "idle", !.genRet = NoModel("upload")]
                    ELSE [handler EXCEPT !.gen = "check_points"]
    /\ UNCHANGED <<pipelineVars, saveVars, batch, gui>>

\* "if len(self.selected_points) == 0: return None, None, ..."
GenCheckPoints ==
    /\ handler.gen = "check_points"
    /\ handler' = IF Len(gui.selected_points) = 0
                    THEN [handler EXCEPT !.gen = "idle", !.genRet = NoModel("select")]
                    ELSE [handler EXCEPT !.gen = "generate_mask"]
    /\ UNCHANGED <<pipelineVars, saveVars, batch, gui>>

\* one collaborator call inside the try block: it is invoked with the image
\* argument while self.selected_points holds the number of points it holds at
\* that moment, and it returns, or raises and "except Exception" returns
\* (None, None, "Error: ...")
GenCollaborator(what, next) ==
    /\ handler.gen = what
    /\ LET call == [what |-> what, image |-> handler.genImage,
                    selected |-> Len(gui.selected_points)]
       IN  \/ handler' = [handler EXCEPT !.gen = next, !.calls = Append(@, call)]
           \/ handler' = [handler EXCEPT !.gen = "idle", !.calls = Append(@, call),
                                         !.genRet = NoModel("error")]
    /\ UNCHANGED <<pipelineVars, saveVars, batch, gui>>

\* "mask = self.sam_processor.generate_mask(image, self.selected_points)"
GenMask == GenCollaborator("generate_mask", "generate_point_cloud")

\* "ply_path = self.sam_processor.generate_point_cloud(image, mask, ...)"
GenPointCloud == GenCollaborator("generate_point_cloud", "convert")

\* "mesh_path = self.mesh_converter.convert_to_watertight_mesh(ply_path, ...)"
GenConvert == GenCollaborator("convert", "return")

\* "return ply_path, mesh_path, f"Success! ...""
GenReturn ==
    /\ handler.gen = "return"
    /\ handler' = [handler EXCEPT !.gen = "idle",
                                  !.genRet = [kind |-> "tuple", ply |-> "ply_path",
                                              mesh |-> "mesh_path",
                                              message |-> "success"]]
    /\ UNCHANGED <<pipelineVars, saveVars, batch, gui>>

\* the page's listeners run on worker threads; a step of any of them, or an
\* upload, can come next
NextGui ==
    \/ Upload
    \/ ClickBegin
    \/ ClickStore
    \/ ClickAppend
    \/ ClickReturn
    \/ ClearAssign
    \/ ClearReturn
    \/ GenBegin
    \/ GenCheckImage
    \/ GenCheckPoints
    \/ GenMask
    \/ GenPointCloud
    \/ GenConvert
    \/ GenReturn

SpecGui == Init /\ [][NextGui]_vars

(* ---------------------------- specification ---------------------------- *)

Next ==
    \/ CallConvert
    \/ CallCleanMesh
    \/ CallMakeWatertight
    \/ CallMakeWatertightAgain
    \/ MakeDirs
    \/ LoadPointCloud
    \/ EstimateNormals
    \/ SkipNormals
    \/ PoissonReconstruction
    \/ CleanDensity
    \/ CleanDegenerate
    \/ CleanDuplicatedTriangles
    \/ CleanDuplicatedVertices
    \/ CleanNonManifold
    \/ CleanReturn
    \/ MWConstruct
    \/ MWCheckEntry
    \/ MWFillHoles
    \/ MWCheckFilled
    \/ MWVoxelize
    \/ MWSmooth
    \/ MWCheckFinal
    \/ MWReturn
    \/ CallSaveMesh
    \/ CallSaveMeshAgain
    \/ SaveMesh
    \/ SMSetSuffix
    \/ SMExport
    \/ SMReturn
    \/ ConvertReturn

Spec == Init /\ [][Next]_vars

(* ============================ properties =============================== *)

IsPrefix(a, b) == Len(a) <= Len(b) /\ SubSeq(b, 1, Len(a)) = a

\* make_watertight has handed its mesh back (to the pipeline or to a caller)
RepairReturned ==
    \/ pc \in {"mw_return", "save", "convert_return"}
    \/ pc \in {"sm_suffix", "sm_export", "sm_return"} /\ entry = "convert"
    \/ pc = "done" /\ entry \in {"convert", "make_watertight"}

\* the complete runs of the repair ladder
RepairRuns ==
    { <<"entry_closed", "filled_closed", "final_closed">>,
      <<"entry_open", "fill_holes", "filled_closed", "final_closed">>,
      <<"entry_open", "fill_holes", "filled_open", "voxelize", "smooth", "final_closed">>,
      <<"entry_open", "fill_holes", "filled_open", "voxelize", "smooth", "final_open">> }

Surface(m) ==
    [i \in 1..Len(m.tris) |-> [k \in 1..3 |-> m.verts[m.tris[i][k]]]]

\* C2: make_watertight on a mesh found watertight at entry applies neither hole
\* filling nor voxelisation nor smoothing and returns the triangles it was
\* given; a second call on the returned mesh returns that mesh again.
C2_WatertightUntouched ==
    (RepairReturned /\ Len(repairLog) > 0 /\ repairLog[1] = "entry_closed") =>
        /\ \A i \in 1..Len(repairLog) :
             repairLog[i] \notin {"fill_holes", "voxelize", "smooth"}
        /\ tri_mesh = TrimeshConstruct(mesh)
        /\ Surface(tri_mesh) = Surface(hist.repairIn[1])
        /\ (runs >= 2 /\ pc = "done") => ret.mesh = ToOpen3D(hist.repairIn[1])
        /\ (runs = 2 /\ pc = "done") => ret.mesh = hist.firstResult[1]

\* a watertight mesh with a vertex no triangle names went through twice
C2_Witness ==
    /\ pc = "done"
    /\ entry = "make_watertight"
    /\ runs = 2
    /\ repairLog[1] = "entry_closed"
    /\ ret.mesh = hist.firstResult[1]
    /\ Len(ret.mesh.verts) = 4

\* every edge of m is incident to exactly two triangles
ClosedManifold(m) ==
    /\ m.tris # <<>>
    /\ \A i \in 1..Len(m.tris), k \in 1..3 :
         Cardinality({j \in 1..Len(m.tris) :
                        \E l \in 1..3 : EdgeAt(m.tris[j], l) = EdgeAt(m.tris[i], k)}) = 2

\* C3: whenever make_watertight reports success (Done), on any branch, the
\* mesh it returns has every edge on exactly two triangles; a mesh failing
\* the last check is reported as Failed.
C3_DoneIsWatertight ==
    /\ reported = "Done" => ClosedManifold(tri_mesh)
    /\ reported = "Failed" => ~ClosedManifold(tri_mesh)
    /\ (RepairReturned /\ pc # "mw_return" /\ reported = "Done") =>
          ClosedManifold(hist.repairOut[1])

\* success reported for a voxelised and smoothed mesh
C3_Witness ==
    /\ RepairReturned
    /\ reported = "Done"
    /\ \E i \in 1..Len(repairLog) : repairLog[i] = "smooth"
    /\ ClosedManifold(tri_mesh)

\* the status the caller can read off what it received, "none" if it
\* received no status
StatusOf(r) == IF "status" \in DOMAIN r THEN r.status ELSE "none"

\* C4 (as claimed): when the repair ends Failed, the caller of make_watertight
\* and of the pipeline receives the flag RepairIncomplete with the mesh or
\* path; the pipeline does not abort.
C4_FailureFlagged ==
    (pc = "done" /\ entry \in {"convert", "make_watertight"} /\ reported = "Failed") =>
        StatusOf(ret) = "RepairIncomplete"

\* C5 (as claimed): when hole filling failed and the voxelised mesh is
\* watertight, the caller receives the status "repaired via voxelization".
C5_VoxelizationReported ==
    (/\ pc = "done"
     /\ entry \in {"convert", "make_watertight"}
     /\ reported = "Done"
     /\ \E i \in 1..Len(repairLog) : repairLog[i] = "voxelize") =>
        StatusOf(ret) = "repaired via voxelization"

\* an input the specification calls invalid: an empty or too small cloud, or a
\* depth that is not positive
InvalidInput(a) == a.n <= 2 \/ a.depth <= 0

\* C6 (as claimed): on an invalid input the pipeline runs no stage and leaves
\* no partial work (no output directory); it ends with InvalidInput raised.
C6_InvalidInputRejected ==
    (entry = "convert" /\ InvalidInput(args)) =>
        /\ ~dirCreated
        /\ trace = <<>>
        /\ pc \in {"makedirs", "raised"}
        /\ pc = "raised" => ret.from = "InvalidInput"

\* the stages after reconstruction
AfterReconstructionStages ==
    {"clean_density", "clean_degenerate", "clean_dup_tris", "clean_dup_verts",
     "clean_non_manifold", "clean_return", "mw_construct", "mw_check_entry", "mw_fill",
     "mw_check_filled", "mw_voxelize", "mw_smooth", "mw_check_final", "mw_return",
     "save", "sm_suffix", "sm_export", "sm_return", "convert_return"}

\* C7 (as claimed): a reconstruction without triangles is not passed on to
\* cleaning, repair and export, and the caller receives the status
\* ReconstructionDegenerate.
C7_DegenerateReported ==
    (entry = "convert" /\ hist.reconOut # <<>> /\ Len(hist.reconOut[1].tris) = 0) =>
        /\ pc \notin AfterReconstructionStages
        /\ pc \in {"done", "raised"} => StatusOf(ret) = "ReconstructionDegenerate"

\* the stages that have started, in order
RECURSIVE StartedStages(_)
StartedStages(t) ==
    IF t = <<>> THEN <<>>
    ELSE IF Head(t).ev = "start" THEN <<Head(t).stage>> \o StartedStages(Tail(t))
    ELSE StartedStages(Tail(t))

\* every stage that started has ended before the next one starts
Sequential(t) ==
    \A i \in 1..Len(t) :
        IF i % 2 = 1 THEN t[i].ev = "start"
        ELSE t[i].ev = "end" /\ t[i].stage = t[i - 1].stage

\* C8 (as claimed): a run that reaches export went through load, normal
\* estimation, reconstruction, cleaning, repair and export, in this order; the
\* repair received the cleaner's output and the exported mesh is the repair's.
C8_AllStagesInOrder ==
    (entry = "convert" /\ hist.exported # <<>>) =>
        /\ StartedStages(trace) =
             <<"load", "estimate_normals", "reconstruct", "clean", "repair", "save">>
        /\ Sequential(trace)
        /\ hist.repairIn = hist.cleanOut
        /\ hist.exported = hist.repairOut

\* the stages a run with these arguments goes through
ExpectedStages(a) ==
    <<"load">>
    \o (IF a.fileNormals /\ a.n > 0 THEN <<>> ELSE <<"estimate_normals">>)
    \o <<"reconstruct">>
    \o (IF a.clean THEN <<"clean">> ELSE <<>>)
    \o <<"repair", "save">>

\* C8 (amended): the stages run one at a time in the order load, normal
\* estimation (only for a cloud without normals), reconstruction, cleaning
\* (only when clean is set), repair, export; the repair receives the cleaner's
\* output when clean is set and the reconstructor's output otherwise, the
\* cleaner receives the reconstructor's output, and the exported mesh is the
\* repair's output.
C8_StagesInOrder ==
    entry = "convert" =>
        /\ IsPrefix(StartedStages(trace), ExpectedStages(args))
        /\ Sequential(trace)
        /\ pc \in {"save", "convert_return", "done"} => Len(trace) % 2 = 0
        /\ hist.exported # <<>> =>
             /\ StartedStages(trace) = ExpectedStages(args)
             /\ hist.repairIn = (IF args.clean THEN hist.cleanOut ELSE hist.reconOut)
             /\ args.clean => hist.cleanIn = hist.reconOut
             /\ ~args.clean => hist.cleanOut = <<>>
             /\ hist.exported = hist.repairOut

\* a run with cleaning and normal estimation reached export with a mesh the
\* cleaner had changed
C8_Witness ==
    /\ entry = "convert"
    /\ pc = "done"
    /\ hist.exported # <<>>
    /\ args.clean
    /\ ~args.fileNormals
    /\ hist.cleanOut # hist.reconOut

\* the loaded cloud carried normals
LoadedWithNormals == args.fileNormals /\ args.n > 0

\* C9: in the pipeline normals are estimated if and only if the loaded cloud
\* has none; a cloud that carries normals reaches the reconstructor with them,
\* and the reconstructor is only ever given a cloud with normals.
C9_NormalsWhenAbsent ==
    (entry = "convert" /\ pc \notin {"makedirs", "load", "normals"}) =>
        /\ (Started("estimate_normals") \in {trace[i] : i \in 1..Len(trace)})
             <=> ~LoadedWithNormals
        /\ LoadedWithNormals => pcd.normals = "file"
        /\ pc # "raised" => (pcd.n > 0 /\ pcd.normals # "none")
        /\ Started("reconstruct") \in {trace[i] : i \in 1..Len(trace)} =>
             (pcd.n > 0 /\ pcd.normals # "none")

\* a cloud with its own normals was reconstructed without estimating any
C9_Witness ==
    /\ entry = "convert"
    /\ Started("reconstruct") \in {trace[i] : i \in 1..Len(trace)}
    /\ Started("estimate_normals") \notin {trace[i] : i \in 1..Len(trace)}
    /\ pcd.normals = "file"

\* the counts before the i-th logged step of clean_mesh
CountsBefore(i) ==
    IF i = 1 THEN Counts("input", hist.cleanIn[1]) ELSE cleanLog[i - 1]

\* C10: after each step of clean_mesh (density removal, degenerate triangles,
\* duplicated triangles, duplicated vertices, non-manifold edges) the vertex
\* count and the triangle count are at most what they were before the step,
\* with or without densities and for every quantile.
C10_CountsNeverIncrease ==
    /\ \A i \in 1..Len(cleanLog) :
         /\ cleanLog[i].nv <= CountsBefore(i).nv
         /\ cleanLog[i].nt <= CountsBefore(i).nt
    /\ cleanLog # <<>> =>
         /\ cleanLog[Len(cleanLog)].nv >= Len(mesh.verts)
         /\ cleanLog[Len(cleanLog)].nt >= Len(mesh.tris)
    /\ (pc \in {"clean_degenerate", "clean_dup_tris", "clean_dup_verts",
                "clean_non_manifold", "clean_return"}) =>
         /\ Len(mesh.verts) <= Len(hist.cleanIn[1].verts)
         /\ Len(mesh.tris) <= Len(hist.cleanIn[1].tris)

\* a direct call with densities and a quantile of one half finished after
\* removing vertices and triangles, the last pass deleting a triangle
C10_Witness ==
    /\ pc = "clean_return"
    /\ entry = "clean_mesh"
    /\ densities.present
    /\ quantile = 50
    /\ Len(cleanLog) = 5
    /\ cleanLog[1].nv < Len(hist.cleanIn[1].verts)
    /\ cleanLog[5].nt < Len(hist.cleanIn[1].tris)


(* ------------------------------ claim C11 ------------------------------- *)

\* save_mesh or the pipeline has returned an output path
PathReturned == pc = "done" /\ entry \in {"save_mesh", "convert"} /\ ret.kind = "path"

\* C11: whenever save_mesh (called directly or as the last stage of the
\* pipeline) returns, the returned path ends in "." followed by the format
\* identifier, whatever extension the supplied path had; the file was written
\* at exactly that path, serialized in the format the identifier names, with
\* the mesh that was handed in; and a second save_mesh on the returned path
\* with the same format returns the same path.
C11_ExtensionMatchesFormat ==
    PathReturned =>
        /\ PathSuffix(PathName(ret.path)) = <<".", saveArgs.format>>
        /\ [path |-> ret.path, type |-> Lower(saveArgs.format)] \in files
        /\ hist.exported = <<tri_mesh>>
        /\ saveRuns = MaxSaveRuns => <<ret.path>> = hist.firstPath

\* save_mesh was handed a path ending in ".tar.ply" with format "obj", returned,
\* and returned again from a second call on the path it returned
C11_Witness ==
    /\ PathReturned
    /\ entry = "save_mesh"
    /\ saveRuns = MaxSaveRuns
    /\ hist.suppliedPath = << <<"output", "/", "model", ".", "tar", ".", "ply">> >>
    /\ saveArgs.format = "obj"
    /\ ret.path = <<"output", "/", "model", ".", "tar", ".", "obj">>


(* ------------------------------ claim C13 ------------------------------- *)

\* the export of the current save_mesh call failed: the target could not be
\* written, the format identifier has no exporter, or it forms no valid suffix
ExportFailed == hist.exportOutcome \in {"unwritable", "unsupported", "invalid_suffix"}

\* C13: once the export of a save_mesh call has failed, the invocation is
\* over with an exception raised from save_mesh: neither save_mesh nor
\* convert_to_watertight_mesh continues to its return statement, no path is
\* handed to the caller, no file exists at the target unless an earlier call
\* wrote it, and the pipeline's save stage never completes.
C13_ExportFailurePropagates ==
    ExportFailed =>
        /\ pc = "raised"
        /\ ret = [kind |-> "exception", from |-> "save_mesh"]
        /\ saveRuns <= 1 => \A f \in files : f.path # outputPath
        /\ entry = "convert" => trace[Len(trace)] = Started("save")

\* the pipeline was asked for a format without an exporter, reached the
\* export with a repaired mesh and raised there
C13_Witness ==
    /\ entry = "convert"
    /\ hist.exportOutcome = "unsupported"
    /\ hist.repairOut # <<>>
    /\ pc = "raised"


(* ------------------------------ claim C14 ------------------------------- *)

\* the steps clean_mesh takes, in order, for a call with or without densities
CleanSteps(withDensities) ==
    (IF withDensities THEN <<"density">> ELSE <<>>)
        \o <<"degenerate", "duplicated_triangles", "duplicated_vertices", "non_manifold">>

\* the names of the steps clean_mesh has taken so far
StepsTaken == [i \in 1..Len(cleanLog) |-> cleanLog[i].step]

\* clean_mesh is past its density step
PastDensity ==
    pc \in {"clean_degenerate", "clean_dup_tris", "clean_dup_verts",
            "clean_non_manifold", "clean_return"}

\* C14: the steps clean_mesh has taken are always an initial part of density
\* removal (only for a call with a density array), degenerate triangles,
\* duplicated triangles, duplicated vertices, non-manifold edges, and all of
\* them once it returns; the vertices the density step removes are exactly
\* those whose density is strictly below the quantile of the array: none for a
\* quantile of 0, none when all densities are equal, never a vertex of the
\* highest density, and the vertex count drops by their number.
C14_DensityFirstThenPasses ==
    /\ IsPrefix(StepsTaken, CleanSteps(densities.present))
    /\ pc = "clean_return" => StepsTaken = CleanSteps(densities.present)
    /\ PastDensity /\ ~densities.present =>
         /\ hist.removed = <<>>
         /\ StepsTaken # <<>> => StepsTaken[1] = "degenerate"
    /\ PastDensity /\ densities.present /\ Len(densities.vals) > 0 =>
         LET d == densities.vals
             removed == hist.removed[1]
         IN  /\ StepsTaken[1] = "density"
             /\ removed = {i \in 1..Len(d) : QuantileScale * d[i] < QuantileScaled(d, quantile)}
             /\ quantile = 0 => removed = {}
             /\ (\A i, j \in 1..Len(d) : d[i] = d[j]) => removed = {}
             /\ \A i \in removed : \E j \in 1..Len(d) : d[j] > d[i]
             /\ cleanLog[1].nv = Len(hist.cleanIn[1].verts) - Cardinality(removed)

\* a direct call with unequal densities and a quantile of one half has
\* removed some but not all vertices and then run all four passes
C14_Witness ==
    /\ pc = "clean_return"
    /\ entry = "clean_mesh"
    /\ densities.present
    /\ quantile = 50
    /\ hist.removed # <<>>
    /\ hist.removed[1] # {}
    /\ cleanLog[1].nv > 0
    /\ StepsTaken = CleanSteps(TRUE)


(* ------------------------------ claim C12 ------------------------------- *)

IsOk(o) == o.result = "ok"

\* the items whose iteration ended without an exception, in order
Succeeded == SelectSeq(batch.outcome, IsOk)

\* C12: the items begun so far are 1, 2, ... up to the current one, each
\* once and in order, and every earlier one has an outcome, whatever it was;
\* the results list holds exactly the items that ended without an exception,
\* in order, each with the point cloud and the mesh produced for that item;
\* and when the function returns every item of the batch has been begun and
\* has an outcome.
C12_BatchItemsIndependent ==
    /\ batch.attempted = [k \in 1..batch.i |-> k]
    /\ \A k \in 1..Len(batch.outcome) : batch.outcome[k].item = k
    /\ Len(batch.outcome) \in {batch.i - 1, batch.i}
    /\ Len(batch.results) = Len(Succeeded)
    /\ \A k \in 1..Len(batch.results) :
         batch.results[k] = [img |-> Succeeded[k].item, ply |-> Succeeded[k].item,
                             mesh |-> Succeeded[k].item]
    /\ batch.step = "returned" =>
         /\ Len(batch.attempted) = BatchSize
         /\ Len(batch.outcome) = BatchSize

\* the batch returned after the first item failed in the mesh pipeline, the
\* second succeeded and the third failed loading its image
C12_Witness ==
    /\ batch.step = "returned"
    /\ batch.outcome = << [item |-> 1, result |-> "failed", stage |-> "convert"],
                          [item |-> 2, result |-> "ok", stage |-> "append"],
                          [item |-> 3, result |-> "failed", stage |-> "load_image"] >>
    /\ batch.results = << [img |-> 2, ply |-> 2, mesh |-> 2] >>


(* ------------------------------ claim C15 ------------------------------- *)

\* generate_3d has returned without going through
GenNotThrough ==
    /\ handler.gen = "idle"
    /\ handler.genRet # NoOutput
    /\ Len(handler.calls) < 3 \/ handler.genRet.message = "error"

\* C15: however the steps of process_image_click, clear_points and
\* generate_3d interleave, every collaborator generate_3d has invoked was
\* invoked with an image while selected_points was non-empty; a generate_3d
\* that did not go through returned (None, None, message); and
\* selected_points only ever changes by a click appending one point or by
\* clear_points emptying it.
C15_CollaboratorsGuarded ==
    /\ [](/\ \A k \in 1..Len(handler.calls) :
               /\ handler.calls[k].image # "none"
               /\ handler.calls[k].selected > 0
          /\ GenNotThrough => /\ handler.genRet.ply = "None"
                              /\ handler.genRet.mesh = "None")
    /\ [][gui.selected_points' # gui.selected_points =>
            \/ /\ handler.click = "append"
               /\ gui.selected_points' = Append(gui.selected_points, handler.clickPoint)
            \/ /\ handler.clear = "idle"
               /\ handler'.clear = "return"
               /\ gui.selected_points' = <<>>]_vars

====
